---- MODULE Spec2Model ----
(***************************************************************************)
(* Model of the Parkinson movement detector (src/src/main.cpp, lines       *)
(* 1-223): a 52 Hz Ticker interrupt that raises sample_flag, and a single  *)
(* main loop that (a) takes one IMU sample per raised flag into two ring   *)
(* buffers and (b) every WINDOW_SEC seconds runs one analysis pass: two    *)
(* spectral passes, the classification logic, the LED update, the print.   *)
(*                                                                         *)
(* Time is counted in Ticker periods (1/SAMPLE_RATE s): the Timer's        *)
(* elapsed time is the number of periods since its last reset, so the      *)
(* 3 s window is WINDOW_SEC * SAMPLE_RATE periods.                         *)
(*                                                                         *)
(* Band energies are floats in the program; here they are integers in      *)
(* units of 0.0001 (the epsilon of line 185), compared in exact            *)
(* arithmetic: x > y * 1.2f is 10*x > 12*y, fog/(walk+eps) > 3 is          *)
(* fog > 3*(walk+eps), the divisor being positive.                         *)
(*                                                                         *)
(* The transform (arm_rfft_fast_f32, arm_cmplx_mag_f32) is an external     *)
(* library: in the whole program the band sums it yields are drawn from    *)
(* bounded sets; the spectral passes on their own (SpecSpectral, SpecBands)*)
(* go through the scratch buffers step by step.                            *)
(* A stored magnitude is modelled by the ordinal of its sample (accel n,   *)
(* gyro -n), which identifies the sample in the buffers.                   *)
(*                                                                         *)
(* The DSP demo (src/unnamed/part_000) is a second program with its own    *)
(* variables and its own specification, SpecDemo.                          *)
(***************************************************************************)
EXTENDS Integers, FiniteSets, Sequences, TLC

\* ---------------------------------------------------------------- constants

SAMPLE_RATE == 52
WINDOW_SEC == 3
RAW_SAMPLES == SAMPLE_RATE * WINDOW_SEC
\* WINDOW_SEC * 1000000 us, in Ticker periods of 1/SAMPLE_RATE s
WINDOW_TICKS == WINDOW_SEC * SAMPLE_RATE
WHO_AM_I_VALUE == 106
FFT_SIZE == 256
\* the DSP demo
MA_WINDOW == 10
\* significant bits of a float (IEEE 754 binary32)
F32_MANTISSA == 24
HALF_BINS == FFT_SIZE \div 2

\* 0.0001f, the unit of the band energies
EPS == 1
\* 5.0f in units of 0.0001
TREMOR_THRESH == 50000
DYSK_THRESH == 50000
WALK_THRESH == 50000
FOG_RATIO_THRESH == 3
\* 1.2f as DOMINANCE_NUM / DOMINANCE_DEN
DOMINANCE_NUM == 12
DOMINANCE_DEN == 10

\* ------------------------------------------------------------------- bounds

\* Ticker interrupts in one run
MaxTicks == 316
\* Ticker interrupts that may fire while one iteration of the main loop works
MaxIterTicks == 2
\* Ticker interrupts that may find sample_flag still raised
MaxLost == 1
\* Ticker interrupts that may fire during one step of the main loop
MaxStepTicks == 1
\* Analysis passes in one run of window after window (SpecPasses)
MaxPasses == 3
\* Samples the DSP demo acquires in one run
MaxAcquired == 520
\* Leading samples of the DSP demo that may be nonzero
MaxVaried == 2

VARIABLES
    pc,            \* position of main()
    ticker_on,     \* tick.attach done
    sample_flag,
    elapsed,       \* timer.elapsed_time(), in Ticker periods
    buf_idx, accel_buf, gyro_buf,
    walk, fog, tremor, dysk, freezing,   \* locals of the analysis pass
    led_tremor, led_dysk, led_freeze,
    out_freeze, out_tremor, out_dysk,    \* the three values last printed
    ticks,         \* history: Ticker interrupts fired
    appended,      \* history: samples stored
    iter_ticks,    \* history: interrupts during the work of this loop iteration
    step_ticks,    \* history: interrupts during the current step of main()
    started, finished,   \* history: analysis passes begun, completed
    since,         \* history: samples stored since the last trigger
    win_samples,   \* history: value of since at the last trigger
    win_accel, win_gyro, \* history: the buffers as they were at the trigger
    who,           \* init_sensor's local, after read_reg(WHO_AM_I, who)
    who_read_ok,   \* history: what that read_reg returned
    read_failed,   \* history: a register read of this iteration's sample block failed
    prev_leds,     \* history: the LEDs as they were at the trigger
    seen,          \* history: <<band sums, LEDs>> of the passes completed
    mean, fft_in, fft_mag,   \* scratch of the spectral passes
    \* the DSP demo
    ma_buffer, ma_idx, ma_sum, fft_idx,
    fft_wr,        \* history: index of the last write to fft_input
    acquired,      \* history: samples acquired
    transforms     \* history: transforms run

hw == <<ticker_on, sample_flag, elapsed>>
bufs == <<buf_idx, accel_buf, gyro_buf>>
energies == <<walk, fog, tremor, dysk>>
leds == <<led_tremor, led_dysk, led_freeze>>
outs == <<out_freeze, out_tremor, out_dysk>>
hist == <<ticks, appended, iter_ticks, started, finished, since, win_samples,
          win_accel, win_gyro>>
probe == <<who, who_read_ok>>
scratch == <<mean, fft_in, fft_mag>>
demo == <<ma_buffer, ma_idx, ma_sum, fft_idx, fft_wr, acquired, transforms>>
vars == <<pc, hw, bufs, energies, freezing, leds, outs, hist, step_ticks,
          probe, read_failed, prev_leds, seen, scratch, demo>>

\* ------------------------------------------------------- classifier helpers

tremor_present_inclusive == tremor >= TREMOR_THRESH
tremor_present == tremor > TREMOR_THRESH
dysk_present_inclusive == dysk >= DYSK_THRESH
dysk_present == dysk > DYSK_THRESH
low_walk == walk < WALK_THRESH
\* fog_ratio > 3.0f with fog_ratio = fog / (walk + 0.0001f)
fog_ratio_high == fog > FOG_RATIO_THRESH * (walk + EPS)

\* a > b * 1.2f
Dominates_scaled_left(a, b) == a * DOMINANCE_NUM > b * DOMINANCE_DEN
Dominates(a, b) == a * DOMINANCE_DEN > b * DOMINANCE_NUM

Bit(b) == IF b THEN 1 ELSE 0

\* --------------------------------------------------------------------- Init

ZeroBuf == [i \in 0..(RAW_SAMPLES - 1) |-> 0]

\* lines 72-75: the scratch buffers are zero-initialised globals
ScratchInit ==
    /\ mean = 0
    /\ fft_in = [i \in 0..(FFT_SIZE - 1) |-> 0]
    /\ fft_mag = [k \in 0..(HALF_BINS - 1) |-> 0]

\* src/unnamed/part_000, lines 38-46
DemoInit ==
    /\ ma_buffer = [i \in 0..(MA_WINDOW - 1) |-> 0]
    /\ ma_idx = 0
    /\ ma_sum = 0
    /\ fft_idx = 0
    /\ fft_wr = -1
    /\ acquired = 0
    /\ transforms = 0

Init ==
    /\ pc = "boot"
    /\ ticker_on = FALSE
    /\ sample_flag = FALSE
    /\ elapsed = 0
    /\ buf_idx = 0
    /\ accel_buf = ZeroBuf
    /\ gyro_buf = ZeroBuf
    /\ walk = 0 /\ fog = 0 /\ tremor = 0 /\ dysk = 0
    /\ freezing = FALSE
    /\ led_tremor = 0 /\ led_dysk = 0 /\ led_freeze = 0
    /\ out_freeze = -1 /\ out_tremor = -1 /\ out_dysk = -1
    /\ ticks = 0 /\ appended = 0 /\ iter_ticks = 0 /\ step_ticks = 0
    /\ started = 0 /\ finished = 0
    /\ since = 0 /\ win_samples = 0
    /\ win_accel = ZeroBuf /\ win_gyro = ZeroBuf
    /\ who = 0 /\ who_read_ok = TRUE
    /\ read_failed = FALSE
    /\ prev_leds = <<0, 0, 0>>
    /\ seen = {}
    /\ ScratchInit
    /\ DemoInit

\* ------------------------------------------------------------------ startup

\* The values init_sensor may find in who.
WhoValues == {WHO_AM_I_VALUE, 0}

init_sensor(w) == w = WHO_AM_I_VALUE

\* init_sensor, lines 52-53, and read_reg, lines 36-42: the identity query.
\* When the transfer succeeds who is the device's answer; when it fails
\* read_reg returns false without writing who, and who holds whatever the
\* uninitialised byte holds.
ReadWhoAmI ==
    /\ pc = "boot"
    /\ step_ticks' = 0
    /\ who_read_ok' \in BOOLEAN
    /\ who' \in WhoValues
    /\ pc' = "who_read"
    /\ UNCHANGED <<hw, bufs, energies, freezing, leds, outs, hist>>
    /\ UNCHANGED <<read_failed, prev_leds, seen, scratch, demo>>

\* init_sensor, lines 54-60, and main, lines 96-107: the test of who (the
\* result of read_reg is not looked at), then Ticker attach and Timer start.
Startup ==
    /\ pc = "who_read"
    /\ step_ticks' = 0
    /\ IF init_sensor(who)
       THEN /\ pc' = "loop"
            /\ ticker_on' = TRUE
       ELSE /\ pc' = "halt"
            /\ ticker_on' = FALSE
    /\ elapsed' = 0
    \* init_sensor has returned: its local is gone
    /\ who' = 0 /\ who_read_ok' = TRUE
    /\ UNCHANGED <<sample_flag, bufs, energies, freezing, leds, outs, hist>>
    /\ UNCHANGED <<read_failed, prev_leds, seen, scratch, demo>>

\* main, line 98: while (1);
Halt ==
    /\ pc = "halt"
    /\ step_ticks' = 0
    /\ UNCHANGED <<probe, read_failed, prev_leds, seen, scratch, demo>>
    /\ UNCHANGED <<pc, hw, bufs, energies, freezing, leds, outs, hist>>

\* ---------------------------------------------------------------- interrupt

\* Interrupts that found sample_flag still raised: their samples are never taken.
Lost == ticks - appended - Bit(sample_flag) - Bit(pc = "read")

\* The sampling done in the interrupt itself instead of in the main loop.
tick_isr_takes_sample ==
    /\ sample_flag' = sample_flag
    /\ accel_buf' = [accel_buf EXCEPT ![buf_idx] = appended + 1]
    /\ gyro_buf' = [gyro_buf EXCEPT ![buf_idx] = -(appended + 1)]
    /\ buf_idx' = IF buf_idx + 1 >= RAW_SAMPLES THEN 0 ELSE buf_idx + 1
    /\ appended' = appended + 1
    /\ since' = since + 1

\* lines 79-81
tick_isr ==
    /\ sample_flag' = TRUE
    /\ UNCHANGED <<bufs, appended, since>>

\* main() spins through lines 112 and 140 with nothing to do.
Idle == pc = "loop" /\ ~sample_flag /\ elapsed < WINDOW_TICKS

\* main() is in a step that takes time: the I2C register reads, a transform,
\* the serial output. The tests and assignments between them take none.
TakesTime == pc \in {"read", "accel", "gyro", "print"}

\* One Ticker period passes: the Timer advances and the interrupt runs.
Tick ==
    /\ ticker_on
    /\ ticks < MaxTicks
    /\ Idle \/ (TakesTime /\ iter_ticks < MaxIterTicks /\ step_ticks < MaxStepTicks)
    /\ sample_flag => Lost < MaxLost
    /\ tick_isr
    /\ elapsed' = elapsed + 1
    /\ ticks' = ticks + 1
    /\ iter_ticks' = IF Idle THEN iter_ticks ELSE iter_ticks + 1
    /\ step_ticks' = IF Idle THEN step_ticks ELSE step_ticks + 1
    /\ UNCHANGED <<pc, ticker_on, energies, freezing, leds, outs,
                   started, finished, win_samples, win_accel, win_gyro>>
    /\ UNCHANGED <<probe, read_failed, prev_leds, seen, scratch, demo>>

\* ---------------------------------------------------------------- main loop

\* lines 112-113
CheckSampleFlag ==
    /\ pc = "loop"
    /\ step_ticks' = 0
    /\ UNCHANGED <<probe, read_failed, prev_leds, seen, scratch, demo>>
    /\ IF sample_flag
       THEN /\ sample_flag' = FALSE
            /\ pc' = "read"
       ELSE /\ sample_flag' = sample_flag
            /\ pc' = "timer"
    /\ UNCHANGED <<ticker_on, elapsed, bufs, energies, freezing, leds, outs, hist>>

\* lines 135-136
NextIdx_wrap_late(i) == IF i + 1 > RAW_SAMPLES THEN 0 ELSE i + 1
NextIdx(i) == IF i + 1 >= RAW_SAMPLES THEN 0 ELSE i + 1

\* The sample block as it would be if a failed read were noticed and the
\* sample dropped.
SampleStore_skips_failed_read ==
    /\ pc = "read"
    /\ step_ticks' = 0
    /\ read_failed' \in BOOLEAN
    /\ IF read_failed'
       THEN UNCHANGED <<bufs, appended, since>>
       ELSE /\ accel_buf' = [accel_buf EXCEPT ![buf_idx] = appended + 1]
            /\ gyro_buf' = [gyro_buf EXCEPT ![buf_idx] = -(appended + 1)]
            /\ buf_idx' = IF buf_idx + 1 >= RAW_SAMPLES THEN 0 ELSE buf_idx + 1
            /\ appended' = appended + 1
            /\ since' = since + 1
    /\ pc' = "timer"
    /\ UNCHANGED <<hw, energies, freezing, leds, outs, ticks, iter_ticks,
                   started, finished, win_samples, win_accel, win_gyro>>
    /\ UNCHANGED <<probe, prev_leds, seen, scratch, demo>>

\* lines 116-136: the twelve register reads, the two magnitudes, the store.
\* read_axis (lines 44-49) does not look at what read_reg returns: when a
\* read fails the magnitude is computed from uninitialised bytes and stored
\* like any other. The stored value stays the ordinal of the sample.
SampleStore ==
    /\ pc = "read"
    /\ step_ticks' = 0
    /\ read_failed' \in BOOLEAN
    /\ UNCHANGED <<probe, prev_leds, seen, scratch, demo>>
    /\ accel_buf' = [accel_buf EXCEPT ![buf_idx] = appended + 1]
    /\ gyro_buf' = [gyro_buf EXCEPT ![buf_idx] = -(appended + 1)]
    /\ buf_idx' = NextIdx(buf_idx)
    /\ appended' = appended + 1
    /\ since' = since + 1
    /\ pc' = "timer"
    /\ UNCHANGED <<hw, energies, freezing, leds, outs, ticks, iter_ticks,
                   started, finished, win_samples, win_accel, win_gyro>>

\* lines 140-141
CheckTimer_no_reset ==
    /\ pc = "timer"
    /\ step_ticks' = 0
    /\ IF elapsed >= WINDOW_TICKS
       THEN /\ elapsed' = elapsed
            /\ pc' = "accel"
            /\ prev_leds' = leds
            /\ started' = started + 1
            /\ win_samples' = since
            /\ since' = 0
            /\ win_accel' = accel_buf
            /\ win_gyro' = gyro_buf
            /\ iter_ticks' = iter_ticks
       ELSE /\ pc' = "loop"
            /\ iter_ticks' = 0
            /\ UNCHANGED <<elapsed, started, win_samples, since, win_accel, win_gyro,
                           prev_leds>>
    /\ read_failed' = FALSE
    /\ UNCHANGED <<ticker_on, sample_flag, bufs, energies, freezing, leds, outs,
                   ticks, appended, finished>>
    /\ UNCHANGED <<probe, seen, scratch, demo>>

CheckTimer ==
    /\ pc = "timer"
    /\ step_ticks' = 0
    /\ IF elapsed >= WINDOW_TICKS
       THEN /\ elapsed' = 0
            /\ pc' = "accel"
            /\ prev_leds' = leds
            /\ started' = started + 1
            /\ win_samples' = since
            /\ since' = 0
            /\ win_accel' = accel_buf
            /\ win_gyro' = gyro_buf
            /\ iter_ticks' = iter_ticks
       ELSE /\ pc' = "loop"
            /\ iter_ticks' = 0
            /\ UNCHANGED <<elapsed, started, win_samples, since, win_accel, win_gyro,
                           prev_leds>>
    /\ read_failed' = FALSE
    /\ UNCHANGED <<ticker_on, sample_flag, bufs, energies, freezing, leds, outs,
                   ticks, appended, finished>>
    /\ UNCHANGED <<probe, seen, scratch, demo>>

\* ------------------------------------------------------------ analysis pass

\* Band sums the transform may yield in a pass of the whole program.
PassWalk == {0, WALK_THRESH + 10000}
PassFog == {0, 4 * EPS}
PassTremor == {0, TREMOR_THRESH + 10002}
PassDysk == {0, DYSK_THRESH + 30000}

\* lines 144-163: mean removal, zero padding, transform, walk and fog sums
AccelPass ==
    /\ pc = "accel"
    /\ step_ticks' = 0
    /\ UNCHANGED <<probe, read_failed, prev_leds, seen, scratch, demo>>
    /\ \E w \in PassWalk, f \in PassFog : walk' = w /\ fog' = f
    /\ pc' = "gyro"
    /\ UNCHANGED <<hw, bufs, tremor, dysk, freezing, leds, outs, hist>>

\* lines 166-185: the same on gyro_buf, tremor and dysk sums
GyroPass ==
    /\ pc = "gyro"
    /\ step_ticks' = 0
    /\ UNCHANGED <<probe, read_failed, prev_leds, seen, scratch, demo>>
    /\ \E t \in PassTremor, d \in PassDysk : tremor' = t /\ dysk' = d
    /\ pc' = "logic"
    /\ UNCHANGED <<hw, bufs, walk, fog, freezing, leds, outs, hist>>

\* lines 188-194
Logic_no_dysk_veto ==
    /\ pc = "logic"
    /\ step_ticks' = 0
    /\ UNCHANGED <<probe, read_failed, prev_leds, seen, scratch, demo>>
    /\ freezing' = (fog_ratio_high /\ low_walk)
    /\ pc' = "led_tremor_off"
    /\ UNCHANGED <<hw, bufs, energies, leds, outs, hist>>

Logic ==
    /\ pc = "logic"
    /\ step_ticks' = 0
    /\ UNCHANGED <<probe, read_failed, prev_leds, seen, scratch, demo>>
    /\ freezing' = (fog_ratio_high /\ low_walk /\ ~dysk_present)
    /\ pc' = "led_tremor_off"
    /\ UNCHANGED <<hw, bufs, energies, leds, outs, hist>>

\* line 196
\* An LED update that leaves LED1 as it was.
ClearTremor_keeps ==
    /\ pc = "led_tremor_off"
    /\ step_ticks' = 0
    /\ UNCHANGED <<probe, read_failed, prev_leds, seen, scratch, demo>>
    /\ led_tremor' = led_tremor
    /\ pc' = "led_dysk_off"
    /\ UNCHANGED <<hw, bufs, energies, freezing, led_dysk, led_freeze, outs, hist>>

ClearTremor ==
    /\ pc = "led_tremor_off"
    /\ step_ticks' = 0
    /\ UNCHANGED <<probe, read_failed, prev_leds, seen, scratch, demo>>
    /\ led_tremor' = 0
    /\ pc' = "led_dysk_off"
    /\ UNCHANGED <<hw, bufs, energies, freezing, led_dysk, led_freeze, outs, hist>>

\* line 197
ClearDysk ==
    /\ pc = "led_dysk_off"
    /\ step_ticks' = 0
    /\ UNCHANGED <<probe, read_failed, prev_leds, seen, scratch, demo>>
    /\ led_dysk' = 0
    /\ pc' = "led_freeze_off"
    /\ UNCHANGED <<hw, bufs, energies, freezing, led_tremor, led_freeze, outs, hist>>

\* lines 198-200
ClearFreeze ==
    /\ pc = "led_freeze_off"
    /\ step_ticks' = 0
    /\ UNCHANGED <<probe, read_failed, prev_leds, seen, scratch, demo>>
    /\ led_freeze' = 0
    /\ pc' = IF freezing THEN "freeze_on" ELSE "else_tremor"
    /\ UNCHANGED <<hw, bufs, energies, freezing, led_tremor, led_dysk, outs, hist>>

\* line 201
FreezeOn ==
    /\ pc = "freeze_on"
    /\ step_ticks' = 0
    /\ UNCHANGED <<probe, read_failed, prev_leds, seen, scratch, demo>>
    /\ led_freeze' = 1
    /\ pc' = "freeze_tremor"
    /\ UNCHANGED <<hw, bufs, energies, freezing, led_tremor, led_dysk, outs, hist>>

\* line 202
FreezeTremor_wrong_led ==
    /\ pc = "freeze_tremor"
    /\ step_ticks' = 0
    /\ UNCHANGED <<probe, read_failed, prev_leds, seen, scratch, demo>>
    /\ led_dysk' = IF tremor_present THEN 1 ELSE led_dysk
    /\ pc' = "print"
    /\ UNCHANGED <<hw, bufs, energies, freezing, led_tremor, led_freeze, outs, hist>>

FreezeTremor ==
    /\ pc = "freeze_tremor"
    /\ step_ticks' = 0
    /\ UNCHANGED <<probe, read_failed, prev_leds, seen, scratch, demo>>
    /\ led_tremor' = IF tremor_present THEN 1 ELSE led_tremor
    /\ pc' = "print"
    /\ UNCHANGED <<hw, bufs, energies, freezing, led_dysk, led_freeze, outs, hist>>

\* lines 205-206
ElseTremor_no_walk_check ==
    /\ pc = "else_tremor"
    /\ step_ticks' = 0
    /\ UNCHANGED <<probe, read_failed, prev_leds, seen, scratch, demo>>
    /\ led_tremor' = IF tremor_present /\ Dominates(tremor, dysk)
                     THEN 1 ELSE led_tremor
    /\ pc' = "else_dysk"
    /\ UNCHANGED <<hw, bufs, energies, freezing, led_dysk, led_freeze, outs, hist>>

ElseTremor ==
    /\ pc = "else_tremor"
    /\ step_ticks' = 0
    /\ UNCHANGED <<probe, read_failed, prev_leds, seen, scratch, demo>>
    /\ led_tremor' = IF low_walk /\ tremor_present /\ Dominates(tremor, dysk)
                     THEN 1 ELSE led_tremor
    /\ pc' = "else_dysk"
    /\ UNCHANGED <<hw, bufs, energies, freezing, led_dysk, led_freeze, outs, hist>>

\* lines 208-209
ElseDysk_no_dominance ==
    /\ pc = "else_dysk"
    /\ step_ticks' = 0
    /\ UNCHANGED <<probe, read_failed, prev_leds, seen, scratch, demo>>
    /\ led_dysk' = IF low_walk /\ dysk_present THEN 1 ELSE led_dysk
    /\ pc' = "print"
    /\ UNCHANGED <<hw, bufs, energies, freezing, led_tremor, led_freeze, outs, hist>>

ElseDysk ==
    /\ pc = "else_dysk"
    /\ step_ticks' = 0
    /\ UNCHANGED <<probe, read_failed, prev_leds, seen, scratch, demo>>
    /\ led_dysk' = IF low_walk /\ dysk_present /\ Dominates(dysk, tremor)
                   THEN 1 ELSE led_dysk
    /\ pc' = "print"
    /\ UNCHANGED <<hw, bufs, energies, freezing, led_tremor, led_freeze, outs, hist>>

\* lines 213-221: the telemetry lines; the pass and the loop iteration end.
PrintOutput ==
    /\ pc = "print"
    /\ step_ticks' = 0
    /\ UNCHANGED <<probe, read_failed, prev_leds, seen, scratch, demo>>
    /\ out_freeze' = Bit(freezing)
    /\ out_tremor' = Bit(low_walk /\ tremor_present /\ Dominates(tremor, dysk))
    /\ out_dysk' = Bit(low_walk /\ dysk_present /\ Dominates(dysk, tremor))
    /\ walk' = 0 /\ fog' = 0 /\ tremor' = 0 /\ dysk' = 0
    /\ freezing' = FALSE
    /\ finished' = finished + 1
    /\ iter_ticks' = 0
    /\ pc' = "loop"
    /\ UNCHANGED <<hw, bufs, leds, ticks, appended, started, since,
                   win_samples, win_accel, win_gyro>>

\* ------------------------------------------------------------ specifications

Classify ==
    \/ Logic
    \/ ClearTremor
    \/ ClearDysk
    \/ ClearFreeze
    \/ FreezeOn
    \/ FreezeTremor
    \/ ElseTremor
    \/ ElseDysk
    \/ PrintOutput

Next ==
    \/ Tick
    \/ ReadWhoAmI
    \/ Startup
    \/ Halt
    \/ CheckSampleFlag
    \/ SampleStore
    \/ CheckTimer
    \/ AccelPass
    \/ GyroPass
    \/ Classify

Spec == Init /\ [][Next]_vars

\* ------------------------------------------- the classifier on its own

\* Band sums around every comparison of lines 185-209.
WalkVals == {0, WALK_THRESH - 1, WALK_THRESH, WALK_THRESH + 10000}
FogVals == {0, FOG_RATIO_THRESH * EPS, FOG_RATIO_THRESH * EPS + 1,
            FOG_RATIO_THRESH * WALK_THRESH, FOG_RATIO_THRESH * WALK_THRESH + 1,
            FOG_RATIO_THRESH * (WALK_THRESH + EPS) + 1}
GyroVals == {0, TREMOR_THRESH, TREMOR_THRESH + 1, TREMOR_THRESH + 10000,
             TREMOR_THRESH + 10001, TREMOR_THRESH + 10002}

\* What an earlier pass can have left: <<led_tremor, led_dysk, led_freeze,
\* out_freeze, out_tremor, out_dysk>>.
PriorResults == {<<0, 0, 0, 0, 0, 0>>, <<1, 0, 0, 0, 1, 0>>, <<0, 1, 0, 0, 0, 1>>,
                 <<0, 0, 1, 1, 0, 0>>, <<1, 0, 1, 1, 0, 0>>, <<1, 0, 1, 1, 1, 0>>}

\* The buffers after n whole windows of samples.
FullBuf(n, sign) ==
    [i \in 0..(RAW_SAMPLES - 1) |-> sign * ((n - 1) * RAW_SAMPLES + i + 1)]

\* main at line 188 of its first pass (n = 1) or of its second (n = 2), the
\* band sums of lines 158-183 just computed.
ClassifyInit ==
    /\ pc = "logic"
    /\ ticker_on = TRUE
    /\ sample_flag = FALSE
    /\ elapsed = 0
    /\ buf_idx = 0
    /\ walk \in WalkVals /\ fog \in FogVals
    /\ tremor \in GyroVals /\ dysk \in GyroVals
    /\ freezing = FALSE
    /\ iter_ticks = 0 /\ step_ticks = 0
    /\ since = 0 /\ win_samples = RAW_SAMPLES
    /\ who = 0 /\ who_read_ok = TRUE
    /\ read_failed = FALSE
    /\ seen = {}
    /\ ScratchInit
    /\ DemoInit
    /\ \E n \in 1..2 :
         /\ accel_buf = FullBuf(n, 1) /\ gyro_buf = FullBuf(n, -1)
         /\ win_accel = FullBuf(n, 1) /\ win_gyro = FullBuf(n, -1)
         /\ ticks = n * RAW_SAMPLES /\ appended = n * RAW_SAMPLES
         /\ started = n /\ finished = n - 1
         /\ IF n = 1
            THEN /\ led_tremor = 0 /\ led_dysk = 0 /\ led_freeze = 0
                 /\ out_freeze = -1 /\ out_tremor = -1 /\ out_dysk = -1
            ELSE \E r \in PriorResults :
                   /\ led_tremor = r[1] /\ led_dysk = r[2] /\ led_freeze = r[3]
                   /\ out_freeze = r[4] /\ out_tremor = r[5] /\ out_dysk = r[6]
    /\ prev_leds = <<led_tremor, led_dysk, led_freeze>>

SpecClassify == ClassifyInit /\ [][Classify]_vars

\* ------------------------------------------------- window after window

\* <<walk, fog, tremor, dysk>> of a window: nothing, freezing, freezing with
\* tremor, tremor, dyskinesia, walking.
WindowEnergies ==
    {<<0, 0, 0, 0>>,
     <<0, FOG_RATIO_THRESH * EPS + 1, 0, 0>>,
     <<0, FOG_RATIO_THRESH * EPS + 1, TREMOR_THRESH + 10002, 0>>,
     <<0, 0, TREMOR_THRESH + 10002, 0>>,
     <<0, 0, 0, DYSK_THRESH + 10002>>,
     <<WALK_THRESH + 10000, 0, TREMOR_THRESH + 10002, 0>>}

\* main at line 188 of its first pass.
PassesInit ==
    /\ ClassifyInit
    /\ started = 1
    /\ <<walk, fog, tremor, dysk>> \in WindowEnergies

\* lines 213-221, then lines 109-185 of the next window taken as one step:
\* the print that ends a pass, RAW_SAMPLES sampling iterations, the trigger
\* and the two spectral passes, up to line 188 of the next pass. The band
\* sums and LEDs of the pass that ends are recorded in seen.
NextWindow ==
    /\ pc = "print"
    /\ started < MaxPasses
    /\ step_ticks' = 0
    /\ out_freeze' = Bit(freezing)
    /\ out_tremor' = Bit(low_walk /\ tremor_present /\ Dominates(tremor, dysk))
    /\ out_dysk' = Bit(low_walk /\ dysk_present /\ Dominates(dysk, tremor))
    /\ finished' = finished + 1
    /\ seen' = seen \cup {<<energies, leds>>}
    /\ ticks' = ticks + RAW_SAMPLES
    /\ appended' = appended + RAW_SAMPLES
    /\ accel_buf' = FullBuf(started + 1, 1) /\ gyro_buf' = FullBuf(started + 1, -1)
    /\ win_accel' = FullBuf(started + 1, 1) /\ win_gyro' = FullBuf(started + 1, -1)
    /\ started' = started + 1
    /\ prev_leds' = leds
    /\ \E e \in WindowEnergies :
         walk' = e[1] /\ fog' = e[2] /\ tremor' = e[3] /\ dysk' = e[4]
    /\ freezing' = FALSE
    /\ pc' = "logic"
    /\ UNCHANGED <<hw, buf_idx, leds, iter_ticks, since, win_samples>>
    /\ UNCHANGED <<probe, read_failed, scratch, demo>>

PassesNext ==
    \/ Classify
    \/ NextWindow

SpecPasses == PassesInit /\ [][PassesNext]_vars

\* ------------------------------------ the spectral passes step by step

Abs(x) == IF x < 0 THEN -x ELSE x

RECURSIVE SumRange(_, _, _)
\* f[lo] + ... + f[hi-1], by halves
SumRange(f, lo, hi) ==
    IF hi <= lo THEN 0
    ELSE IF hi = lo + 1 THEN f[lo]
    ELSE LET mid == (lo + hi) \div 2
         IN  SumRange(f, lo, mid) + SumRange(f, mid, hi)

\* lines 144-146 and 166-168: mean += buf[i] for every i, mean /= RAW_SAMPLES,
\* from the value m0 that mean has before the loop.
MeanOf(m0, buf) == (m0 + SumRange(buf, 0, RAW_SAMPLES)) \div RAW_SAMPLES

\* lines 148-151 and 170-173: mean removal and zero padding
Centered(buf, m) ==
    [i \in 0..(FFT_SIZE - 1) |-> IF i < RAW_SAMPLES THEN buf[i] - m ELSE 0]

\* lines 153-154 and 175-176: arm_rfft_fast_f32 and arm_cmplx_mag_f32 are
\* library code. What the passes rely on is that fft_mag becomes a function
\* of fft_in alone; a folding of the input on HALF_BINS bins stands for it.
Spectrum(x) == [k \in 0..(HALF_BINS - 1) |-> Abs(x[k]) + Abs(x[k + HALF_BINS])]

\* lines 156-162 and 180-182: f = k * hz_per_bin with hz_per_bin =
\* (float)SAMPLE_RATE / FFT_SIZE = 0.203125, exact in a float as is every
\* product k * hz_per_bin for k < 128; f <= 3.0f is k * SAMPLE_RATE <=
\* 3 * FFT_SIZE, and so on.
InWalk(k) == 2 * k * SAMPLE_RATE >= FFT_SIZE /\ k * SAMPLE_RATE <= 3 * FFT_SIZE
InFog_from_two_hertz(k) ==
    k * SAMPLE_RATE > 2 * FFT_SIZE /\ k * SAMPLE_RATE <= 8 * FFT_SIZE
InFog(k) == k * SAMPLE_RATE > 3 * FFT_SIZE /\ k * SAMPLE_RATE <= 8 * FFT_SIZE
InTremor(k) == k * SAMPLE_RATE >= 3 * FFT_SIZE /\ k * SAMPLE_RATE <= 5 * FFT_SIZE
InDysk(k) == k * SAMPLE_RATE > 5 * FFT_SIZE /\ k * SAMPLE_RATE <= 7 * FFT_SIZE

WalkBins == {k \in 0..(HALF_BINS - 1) : InWalk(k)}
FogBins == {k \in 0..(HALF_BINS - 1) : InFog(k)}
TremorBins == {k \in 0..(HALF_BINS - 1) : InTremor(k)}
DyskBins == {k \in 0..(HALF_BINS - 1) : InDysk(k)}

\* for (int k=1; k < FFT_SIZE/2; k++) if (f in the band) sum += fft_mag[k];
BandSum(mag, bins) ==
    SumRange([k \in 0..(HALF_BINS - 1) |-> IF k \in bins THEN mag[k] ELSE 0],
             1, HALF_BINS)

\* lines 144-151
AccelFill ==
    /\ pc = "accel_fill"
    /\ step_ticks' = 0
    /\ mean' = MeanOf(0, accel_buf)
    /\ fft_in' = Centered(accel_buf, mean')
    /\ pc' = "accel_fft"
    /\ UNCHANGED <<hw, bufs, energies, freezing, leds, outs, hist, fft_mag>>
    /\ UNCHANGED <<probe, read_failed, prev_leds, seen, demo>>

\* lines 153-154
AccelTransform ==
    /\ pc = "accel_fft"
    /\ step_ticks' = 0
    /\ fft_mag' = Spectrum(fft_in)
    /\ pc' = "accel_bands"
    /\ UNCHANGED <<hw, bufs, energies, freezing, leds, outs, hist, mean, fft_in>>
    /\ UNCHANGED <<probe, read_failed, prev_leds, seen, demo>>

\* lines 156-163
AccelBands ==
    /\ pc = "accel_bands"
    /\ step_ticks' = 0
    /\ walk' = BandSum(fft_mag, WalkBins)
    /\ fog' = BandSum(fft_mag, FogBins)
    /\ pc' = "gyro_fill"
    /\ UNCHANGED <<hw, bufs, tremor, dysk, freezing, leds, outs, hist, scratch>>
    /\ UNCHANGED <<probe, read_failed, prev_leds, seen, demo>>

\* lines 166-173
GyroFill_keeps_mean ==
    /\ pc = "gyro_fill"
    /\ step_ticks' = 0
    /\ mean' = MeanOf(mean, gyro_buf)
    /\ fft_in' = Centered(gyro_buf, mean')
    /\ pc' = "gyro_fft"
    /\ UNCHANGED <<hw, bufs, energies, freezing, leds, outs, hist, fft_mag>>
    /\ UNCHANGED <<probe, read_failed, prev_leds, seen, demo>>

GyroFill ==
    /\ pc = "gyro_fill"
    /\ step_ticks' = 0
    /\ mean' = MeanOf(0, gyro_buf)
    /\ fft_in' = Centered(gyro_buf, mean')
    /\ pc' = "gyro_fft"
    /\ UNCHANGED <<hw, bufs, energies, freezing, leds, outs, hist, fft_mag>>
    /\ UNCHANGED <<probe, read_failed, prev_leds, seen, demo>>

\* lines 175-176
GyroTransform ==
    /\ pc = "gyro_fft"
    /\ step_ticks' = 0
    /\ fft_mag' = Spectrum(fft_in)
    /\ pc' = "gyro_bands"
    /\ UNCHANGED <<hw, bufs, energies, freezing, leds, outs, hist, mean, fft_in>>
    /\ UNCHANGED <<probe, read_failed, prev_leds, seen, demo>>

\* lines 178-183
GyroBands ==
    /\ pc = "gyro_bands"
    /\ step_ticks' = 0
    /\ tremor' = BandSum(fft_mag, TremorBins)
    /\ dysk' = BandSum(fft_mag, DyskBins)
    /\ pc' = "logic"
    /\ UNCHANGED <<hw, bufs, walk, fog, freezing, leds, outs, hist, scratch>>
    /\ UNCHANGED <<probe, read_failed, prev_leds, seen, demo>>

\* A window of magnitudes: one peak at index j, 0 elsewhere. The peak is a
\* multiple of RAW_SAMPLES * RAW_SAMPLES, so that the division of line 146 is
\* exact for the window's sum and for that sum plus another window's mean.
Pattern(j, a) ==
    [i \in 0..(RAW_SAMPLES - 1) |->
        IF i = j THEN RAW_SAMPLES * RAW_SAMPLES * a ELSE 0]
SpikeAt == {5, 20, 30, 100}
Amplitudes == {1, 2}
Patterns == {Pattern(j, a) : j \in SpikeAt, a \in Amplitudes}

\* main in its first pass, the window just triggered: everything but pc, the
\* buffers and the scratch.
FirstPass ==
    /\ ticker_on = TRUE
    /\ sample_flag = FALSE
    /\ elapsed = 0
    /\ buf_idx = 0
    /\ walk = 0 /\ fog = 0 /\ tremor = 0 /\ dysk = 0
    /\ freezing = FALSE
    /\ led_tremor = 0 /\ led_dysk = 0 /\ led_freeze = 0
    /\ out_freeze = -1 /\ out_tremor = -1 /\ out_dysk = -1
    /\ ticks = RAW_SAMPLES /\ appended = RAW_SAMPLES
    /\ iter_ticks = 0 /\ step_ticks = 0
    /\ started = 1 /\ finished = 0
    /\ since = 0 /\ win_samples = RAW_SAMPLES
    /\ who = 0 /\ who_read_ok = TRUE
    /\ read_failed = FALSE
    /\ prev_leds = <<0, 0, 0>>
    /\ seen = {}
    /\ DemoInit

\* main at line 144 with any two windows in the buffers.
SpectralInit ==
    /\ pc = "accel_fill"
    /\ FirstPass
    /\ accel_buf \in Patterns /\ gyro_buf \in Patterns
    /\ win_accel = accel_buf /\ win_gyro = gyro_buf
    /\ ScratchInit

SpectralNext ==
    \/ AccelFill
    \/ AccelTransform
    \/ AccelBands
    \/ GyroFill
    \/ GyroTransform
    \/ GyroBands

SpecSpectral == SpectralInit /\ [][SpectralNext]_vars

\* A magnitude spectrum with one unit at bin j.
Spike(j) == [k \in 0..(HALF_BINS - 1) |-> IF k = j THEN 1 ELSE 0]

\* main at line 156 or at line 178, fft_mag holding one unit at any one bin.
BandsInit ==
    /\ pc \in {"accel_bands", "gyro_bands"}
    /\ FirstPass
    /\ accel_buf = FullBuf(1, 1) /\ gyro_buf = FullBuf(1, -1)
    /\ win_accel = accel_buf /\ win_gyro = gyro_buf
    /\ mean = 0
    /\ fft_in = [i \in 0..(FFT_SIZE - 1) |-> 0]
    /\ \E j \in 0..(HALF_BINS - 1) : fft_mag = Spike(j)

BandsNext ==
    \/ AccelBands
    \/ GyroBands

SpecBands == BandsInit /\ [][BandsNext]_vars

\* ------------------------------------------- the DSP demo (part_000)

\* The demo's floats are integers in units of 2^-27, in which every value
\* met here is exact; a float operation is the exact operation followed by
\* rounding to F32_MANTISSA significant bits, ties to even.

RECURSIVE Pow2(_)
Pow2(n) == IF n = 0 THEN 1 ELSE 2 * Pow2(n - 1)

RECURSIVE Excess(_, _)
\* The least s >= k with a < 2^(F32_MANTISSA + s)
Excess(a, k) ==
    IF a \div Pow2(F32_MANTISSA) < Pow2(k) THEN k ELSE Excess(a, k + 1)

RoundF32(x) ==
    LET a == Abs(x)
        s == Excess(a, 0)
        q == a \div Pow2(s)
        r == a % Pow2(s)
        up == s > 0 /\ (2 * r > Pow2(s) \/ (2 * r = Pow2(s) /\ q % 2 = 1))
        m == (q + Bit(up)) * Pow2(s)
    IN  IF x < 0 THEN -m ELSE m

FAdd(a, b) == RoundF32(a + b)
FSub(a, b) == RoundF32(a - b)

\* Raw readings of OUTZ_L_XL
RawVals == {0, 300, 16384}

\* line 138: acc_z = raw_val * 0.244f / 1000.0f, the float result for each
\* raw value of RawVals (0.0, 0.0732000023..., 3.9976961612...).
AccZ(raw) ==
    CASE raw = 0 -> 0
      [] raw = 300 -> 9824738
      [] raw = 16384 -> 536561696

\* part_000 at line 130, the sensor initialised; the detector's variables
\* play no part.
DemoStart ==
    /\ pc = "demo_acquire"
    /\ ticker_on = FALSE
    /\ sample_flag = FALSE
    /\ elapsed = 0
    /\ buf_idx = 0
    /\ accel_buf = ZeroBuf
    /\ gyro_buf = ZeroBuf
    /\ walk = 0 /\ fog = 0 /\ tremor = 0 /\ dysk = 0
    /\ freezing = FALSE
    /\ led_tremor = 0 /\ led_dysk = 0 /\ led_freeze = 0
    /\ out_freeze = -1 /\ out_tremor = -1 /\ out_dysk = -1
    /\ ticks = 0 /\ appended = 0 /\ iter_ticks = 0 /\ step_ticks = 0
    /\ started = 0 /\ finished = 0
    /\ since = 0 /\ win_samples = 0
    /\ win_accel = ZeroBuf /\ win_gyro = ZeroBuf
    /\ who = 0 /\ who_read_ok = TRUE
    /\ read_failed = FALSE
    /\ prev_leds = <<0, 0, 0>>
    /\ seen = {}
    /\ ScratchInit
    /\ DemoInit

\* part_000, lines 134-156: acquisition and moving average
DemoMovingAverage ==
    /\ pc = "demo_acquire"
    /\ acquired < MaxAcquired
    /\ step_ticks' = 0
    /\ \E raw_val \in (IF acquired < MaxVaried THEN RawVals ELSE {0}) :
         LET acc_z == AccZ(raw_val)
             less_oldest == FSub(ma_sum, ma_buffer[ma_idx])
         IN  /\ ma_buffer' = [ma_buffer EXCEPT ![ma_idx] = acc_z]
             /\ ma_sum' = FAdd(less_oldest, acc_z)
    /\ ma_idx' = (ma_idx + 1) % MA_WINDOW
    /\ acquired' = acquired + 1
    /\ pc' = "demo_fft"
    /\ UNCHANGED <<fft_idx, fft_wr, transforms>>
    /\ UNCHANGED <<hw, bufs, energies, freezing, leds, outs, hist>>
    /\ UNCHANGED <<probe, read_failed, prev_leds, seen, scratch>>

\* part_000, lines 162-208: the sample goes to fft_input; when the buffer is
\* full the transform and the dominant-frequency update run and fft_idx is
\* reset.
DemoFftBuffer ==
    /\ pc = "demo_fft"
    /\ step_ticks' = 0
    /\ fft_wr' = fft_idx
    /\ IF fft_idx + 1 >= FFT_SIZE
       THEN /\ transforms' = transforms + 1
            /\ fft_idx' = 0
       ELSE /\ transforms' = transforms
            /\ fft_idx' = fft_idx + 1
    /\ pc' = "demo_acquire"
    /\ UNCHANGED <<ma_buffer, ma_idx, ma_sum, acquired>>
    /\ UNCHANGED <<hw, bufs, energies, freezing, leds, outs, hist>>
    /\ UNCHANGED <<probe, read_failed, prev_leds, seen, scratch>>

DemoNext ==
    \/ DemoMovingAverage
    \/ DemoFftBuffer

SpecDemo == DemoStart /\ [][DemoNext]_vars

\* =================================================================== claims

\* The LED update of the pass is complete and its band sums are still in scope.
PassClassified == pc = "print"

\* C1: after an analysis pass completes, whatever nonnegative band energies it
\* had, the freezing indication (led_freeze) and the dyskinesia indication
\* (led_dysk) are never both on.
C1_FreezeExcludesDysk ==
    pc \in {"print", "loop"} => ~(led_freeze = 1 /\ led_dysk = 1)

\* A pass that froze with tremor present has set its LEDs.
C1_Witness ==
    /\ PassClassified
    /\ freezing /\ tremor > TREMOR_THRESH
    /\ led_freeze = 1 /\ led_tremor = 1

\* The rule set as the claims state it, over the band energies of the pass.
RefFreezing ==
    /\ fog > FOG_RATIO_THRESH * (walk + EPS)
    /\ walk < WALK_THRESH
    /\ ~(dysk > DYSK_THRESH)
RefTremorFlag ==
    IF RefFreezing
    THEN tremor > TREMOR_THRESH
    ELSE /\ walk < WALK_THRESH
         /\ tremor > TREMOR_THRESH
         /\ DOMINANCE_DEN * tremor > DOMINANCE_NUM * dysk
RefDyskFlag ==
    IF RefFreezing
    THEN FALSE
    ELSE /\ walk < WALK_THRESH
         /\ dysk > DYSK_THRESH
         /\ DOMINANCE_DEN * dysk > DOMINANCE_NUM * tremor

\* C2: the three flags an analysis pass produces (the freezing local and the
\* three LEDs, whatever the LEDs showed before) equal the reference rule set:
\* freezing = fog/(walk+eps) > 3 and walk < 5 and not dysk > 5; when freezing,
\* tremor flag = tremor > 5 and dyskinesia flag off; otherwise each of the two
\* needs walk < 5, its own energy > 5 and 1.2 times dominance over the other.
C2_FlagsMatchRules ==
    PassClassified =>
        /\ freezing = RefFreezing
        /\ led_freeze = Bit(RefFreezing)
        /\ led_tremor = Bit(RefTremorFlag)
        /\ led_dysk = Bit(RefDyskFlag)

\* A pass whose dyskinesia energy dominates a present tremor has set its LEDs.
C2_Witness ==
    /\ PassClassified
    /\ walk < WALK_THRESH
    /\ tremor > TREMOR_THRESH
    /\ DOMINANCE_DEN * dysk > DOMINANCE_NUM * tremor
    /\ led_dysk = 1 /\ led_tremor = 0

\* Scenario D's case: fog ratio high, walk low, dyskinesia energy past threshold.
ScenarioD ==
    /\ fog > FOG_RATIO_THRESH * (walk + EPS)
    /\ walk < WALK_THRESH
    /\ dysk > DYSK_THRESH

\* C3, as stated: in Scenario D the pass yields freezing = true and
\* dyskinesiaFlag = false.
C3_ScenarioD_Freezes ==
    (PassClassified /\ ScenarioD) =>
        (freezing /\ led_freeze = 1 /\ led_dysk = 0)

\* C3, amended: in Scenario D the dyskinesia energy vetoes freezing: the pass
\* yields freezing = false, and the dyskinesia flag is on exactly when the
\* dyskinesia energy exceeds 1.2 times the tremor energy.
C3_ScenarioD_NoFreeze ==
    (PassClassified /\ ScenarioD) =>
        /\ ~freezing
        /\ led_freeze = 0
        /\ led_dysk = Bit(DOMINANCE_DEN * dysk > DOMINANCE_NUM * tremor)

\* A Scenario D pass has set its LEDs, the dyskinesia LED among them.
C3_Witness ==
    PassClassified /\ ScenarioD /\ led_dysk = 1

\* C9: whenever walk energy is not below WALK_THRESH, the pass yields all
\* three flags false, for every fog, tremor and dyskinesia energy.
C9_WalkingClearsAll ==
    (PassClassified /\ ~(walk < WALK_THRESH)) =>
        /\ ~freezing
        /\ led_tremor = 0 /\ led_dysk = 0 /\ led_freeze = 0

\* A walking pass with a high fog ratio and a dominant tremor has set its LEDs.
C9_Witness ==
    /\ PassClassified
    /\ walk >= WALK_THRESH
    /\ fog > FOG_RATIO_THRESH * (walk + EPS)
    /\ tremor > TREMOR_THRESH
    /\ DOMINANCE_DEN * tremor > DOMINANCE_NUM * dysk

\* C10: whenever tremor energy equals dyskinesia energy, the pass yields the
\* tremor flag and the dyskinesia flag both false, freezing or not.
C10_TieGivesNeither ==
    (PassClassified /\ tremor = dysk) =>
        (led_tremor = 0 /\ led_dysk = 0)

\* A freezing pass whose tremor and dyskinesia energies are both exactly the
\* threshold has set its LEDs.
C10_Witness ==
    /\ PassClassified
    /\ tremor = dysk /\ tremor = TREMOR_THRESH
    /\ freezing /\ led_freeze = 1

\* ------------------------------------------------- sampling and windowing

PassPcs == {"accel", "gyro", "logic", "led_tremor_off", "led_dysk_off",
            "led_freeze_off", "freeze_on", "freeze_tremor", "else_tremor",
            "else_dysk", "print"}

\* The pass is still to read, or is reading, the buffers (lines 144-171).
PassReading == pc \in {"accel", "gyro"}

\* C4, as stated: every Ticker interrupt results in exactly one magnitude pair
\* appended, under any interleaving: the interrupts fired are the samples
\* appended plus those still being taken (flag raised, or the sample block
\* past line 113 and not yet at line 133).
C4_EveryTickSampled ==
    ticks = appended + Bit(sample_flag) + Bit(pc = "read")

\* A sample is written into accel_buf or gyro_buf between the trigger of a pass
\* and the end of its reads.
TornRead ==
    PassReading /\ (accel_buf # win_accel \/ gyro_buf # win_gyro)

\* C5, as stated: in the baseline design the Ticker interrupts write the
\* samples, so one that fires between the trigger of a pass and the end of
\* its reads puts a new sample into accel_buf or gyro_buf: a torn read.
C5_TickDuringReadTears ==
    [][(PassReading /\ ticks' = ticks + 1) =>
          (accel_buf' # accel_buf \/ gyro_buf' # gyro_buf)]_vars

\* C5, amended: no torn read is reachable. The interrupt only raises
\* sample_flag; the buffers are written by the main loop's sample block, which
\* never runs between the trigger of a pass and the end of its reads, so both
\* buffers stay as they were at the trigger.
C5_NoTornRead == ~TornRead

\* A Ticker interrupt fired after the trigger, while the pass reads the buffers.
C5_Witness ==
    PassReading /\ elapsed >= 1 /\ sample_flag

\* C6: each time the timer check finds elapsed >= window it resets elapsed to
\* zero and starts exactly one pass, which goes over accel_buf and then
\* gyro_buf; no pass starts while elapsed is below the window, or from
\* anywhere but the timer check, or before the previous pass has completed.
C6_NoOverlap ==
    /\ started - finished = Bit(pc \in PassPcs)
    /\ pc = "timer" => started = finished
C6_TimerStep ==
    /\ (pc = "timer" /\ pc' # "timer") =>
          IF elapsed >= WINDOW_TICKS
          THEN elapsed' = 0 /\ pc' = "accel" /\ started' = started + 1
          ELSE pc' = "loop" /\ started' = started /\ elapsed' = elapsed
    /\ started' # started =>
          /\ pc = "timer" /\ elapsed >= WINDOW_TICKS
          /\ started' = started + 1
          /\ started = finished
    /\ finished' # finished =>
          (pc = "print" /\ pc' = "loop" /\ finished' = finished + 1)
    /\ (pc = "accel" /\ pc' # "accel") => pc' = "gyro"
    /\ (pc = "gyro" /\ pc' # "gyro") => pc' = "logic"
C6_OnePassPerWindow == [](C6_NoOverlap) /\ [][C6_TimerStep]_vars

\* The second pass has been triggered, the first one completed.
C6_Witness ==
    pc = "accel" /\ started = 2 /\ finished = 1 /\ elapsed = 0

\* C7, as stated: at every trigger exactly RAW_SAMPLES samples have been
\* appended since the previous trigger (since startup for the first), so
\* buf_idx is 0 and the buffer holds one whole window from index 0.
C7_WindowAligned ==
    pc = "accel" => (win_samples = RAW_SAMPLES /\ buf_idx = 0)

Range(f) == {f[i] : i \in DOMAIN f}

\* C8: buf_idx stays in [0, 156), advances by one per appended sample and
\* wraps to 0 after 155; both buffers are written at the same index and
\* nowhere else; once 156 samples have been appended each buffer holds
\* exactly the 156 most recently appended magnitudes.
C8_State ==
    /\ buf_idx \in 0..(RAW_SAMPLES - 1)
    /\ buf_idx = appended % RAW_SAMPLES
    /\ DOMAIN accel_buf = 0..(RAW_SAMPLES - 1)
    /\ DOMAIN gyro_buf = 0..(RAW_SAMPLES - 1)
    /\ appended >= RAW_SAMPLES =>
          /\ Range(accel_buf) = (appended - RAW_SAMPLES + 1)..appended
          /\ Range(gyro_buf) = {-n : n \in (appended - RAW_SAMPLES + 1)..appended}
C8_Step ==
    /\ appended' = appended + 1 =>
          /\ buf_idx' = (buf_idx + 1) % RAW_SAMPLES
          /\ accel_buf'[buf_idx] = appended + 1
          /\ gyro_buf'[buf_idx] = -(appended + 1)
          /\ \A i \in 0..(RAW_SAMPLES - 1) :
                i # buf_idx => (accel_buf'[i] = accel_buf[i] /\ gyro_buf'[i] = gyro_buf[i])
    /\ appended' = appended =>
          (buf_idx' = buf_idx /\ accel_buf' = accel_buf /\ gyro_buf' = gyro_buf)
    /\ appended' \in {appended, appended + 1}
C8_RingBuffer == [](C8_State) /\ [][C8_Step]_vars

\* The buffers have wrapped: more than 156 samples appended, the newest at
\* index 0.
C8_Witness ==
    /\ appended = RAW_SAMPLES + 1
    /\ buf_idx = 1
    /\ accel_buf[0] = RAW_SAMPLES + 1 /\ gyro_buf[0] = -(RAW_SAMPLES + 1)

\* C11: the detection thresholds are strict. After the LED update of a pass
\* whose tremor sum is exactly TREMOR_THRESH, LED1 is off, and after one whose
\* dysk sum is exactly DYSK_THRESH, LED2 is off, whatever the other band sums
\* and whatever the LEDs showed before.
C11_StrictThresholds ==
    PassClassified =>
        /\ tremor = TREMOR_THRESH => led_tremor = 0
        /\ dysk = DYSK_THRESH => led_dysk = 0

\* Both sums on their thresholds in a freezing pass, where LED1 follows
\* tremor_present alone.
C11_Witness ==
    /\ PassClassified
    /\ tremor = TREMOR_THRESH /\ dysk = DYSK_THRESH
    /\ freezing /\ led_freeze = 1
    /\ prev_leds[1] = 1

\* C18: the three values printed at the end of a pass are the three LEDs as
\* that pass set them.
C18_PrintsMatchLeds ==
    (pc = "loop" /\ finished = started /\ finished > 0) =>
        /\ out_freeze = led_freeze
        /\ out_tremor = led_tremor
        /\ out_dysk = led_dysk

\* C19: after the LED update of a pass, LED1 (tremor) and LED2 (dyskinesia)
\* are never both on.
C19_TremorDyskExclusive ==
    PassClassified => ~(led_tremor = 1 /\ led_dysk = 1)

\* Both bands above their thresholds with little walking, one of them lit.
C19_Witness ==
    /\ PassClassified
    /\ low_walk /\ tremor_present /\ dysk_present
    /\ led_tremor + led_dysk = 1

\* The LEDs a pass with the band sums in scope ends with.
NewLeds == <<Bit(RefTremorFlag), Bit(RefDyskFlag), Bit(RefFreezing)>>

\* The steps of a pass from the classification logic to the print.
UpdatePcs == {"logic", "led_tremor_off", "led_dysk_off", "led_freeze_off",
              "freeze_on", "freeze_tremor", "else_tremor", "else_dysk", "print"}

\* C15: the three LEDs go from the previous classification to the new one in
\* a single step: during the LED update they show either what they showed
\* when the pass was triggered or the new classification, and outside a pass
\* no step changes them.
C15_LedsOldOrNew == pc \in UpdatePcs => leds \in {prev_leds, NewLeds}

C15_OneStep ==
    /\ leds' # leds => (pc \in UpdatePcs /\ leds = prev_leds /\ leds' = NewLeds)
    /\ pc \notin (PassPcs \cup UpdatePcs) => leds' = leds

C15_AtomicReplacement == [](C15_LedsOldOrNew) /\ [][C15_OneStep]_vars

\* The identity query was not answered as expected: read_reg failed, or the
\* byte tested is not 0x6A.
IdentityFailed == pc = "who_read" /\ (~who_read_ok \/ who # WHO_AM_I_VALUE)

\* C13: when the sensor does not answer the identity query as expected (the
\* WHO_AM_I read fails or yields a value other than 0x6A) the program goes
\* to its halt loop; in the halt loop no Ticker is attached, no sample was or
\* is appended, no analysis pass runs, and the halt loop is never left.
C13_Halted ==
    pc = "halt" => (~ticker_on /\ ticks = 0 /\ appended = 0 /\ started = 0)

C13_Step ==
    /\ IdentityFailed => pc' \in {"who_read", "halt"}
    /\ pc = "halt" => pc' = "halt"

C13_IdentityFailureHalts == [](C13_Halted) /\ [][C13_Step]_vars

\* C14: a register read that fails in a sample block goes unnoticed: the
\* block is left for the timer check like any other, with exactly one pair
\* stored at buf_idx, buf_idx advanced by one modulo RAW_SAMPLES, and every
\* other slot as it was.
C14_Step ==
    (pc = "read" /\ pc' # "read" /\ read_failed') =>
        /\ pc' = "timer"
        /\ appended' = appended + 1
        /\ since' = since + 1
        /\ buf_idx' = (buf_idx + 1) % RAW_SAMPLES
        /\ accel_buf'[buf_idx] > 0 /\ gyro_buf'[buf_idx] < 0
        /\ \A i \in 0..(RAW_SAMPLES - 1) :
             i # buf_idx => (accel_buf'[i] = accel_buf[i] /\ gyro_buf'[i] = gyro_buf[i])

C14_FailedReadStillStored == [][C14_Step]_vars

\* The sample block just left had a failing read, its pair is in the buffers
\* and the index has gone on, here round the end of the buffers.
C14_Witness ==
    /\ pc = "timer" /\ read_failed
    /\ appended = RAW_SAMPLES /\ buf_idx = 0
    /\ accel_buf[RAW_SAMPLES - 1] = appended

\* C16: classification is stateless per window. Whenever the band sums of a
\* pass are those of an earlier pass of the run, the three LEDs after its
\* update are those the earlier pass ended with, whatever the windows in
\* between were and whatever the LEDs showed when it was triggered.
C16_SameSumsSameFlags ==
    PassClassified => \A p \in seen : p[1] = energies => p[2] = leds

\* The band sums were classified before, and this pass was triggered with
\* LEDs lit that it does not end with.
C16_Witness ==
    /\ PassClassified
    /\ \E p \in seen : p[1] = energies
    /\ prev_leds # leds /\ prev_leds # <<0, 0, 0>>

\* C12: a bin's magnitude is added to at most one band of each channel and
\* bin 0 to none: with one unit at a single bin of fft_mag, the walk and fog
\* sums of lines 156-163 together hold at most that unit, the tremor and dysk
\* sums of lines 178-183 likewise, and with the unit at bin 0 all are 0.
C12_BandPartition ==
    /\ pc = "gyro_fill" =>
         /\ walk + fog <= 1
         /\ fft_mag[0] = 1 => walk + fog = 0
    /\ pc = "logic" =>
         /\ tremor + dysk <= 1
         /\ fft_mag[0] = 1 => tremor + dysk = 0

\* The unit at bin 15 (3.05 Hz, the first bin above the edge that walk and
\* fog share) has gone to fog alone.
C12_Witness ==
    /\ pc = "gyro_fill"
    /\ fft_mag[15] = 1
    /\ walk = 0 /\ fog = 1

\* The band sums of one channel as a function of that channel's window alone.
ChannelSum(buf, bins) == BandSum(Spectrum(Centered(buf, MeanOf(0, buf))), bins)

\* C17: the channels do not interact through the shared scratch: at the end
\* of the two spectral passes walk and fog are the band sums of the spectrum
\* of the acceleration window, tremor and dysk those of the angular-rate
\* window, so that neither pair depends on the other channel's buffer.
C17_ChannelsIsolated ==
    pc = "logic" =>
        /\ walk = ChannelSum(win_accel, WalkBins)
        /\ fog = ChannelSum(win_accel, FogBins)
        /\ tremor = ChannelSum(win_gyro, TremorBins)
        /\ dysk = ChannelSum(win_gyro, DyskBins)

\* The two windows differ, and so do the sums they would give in the other
\* channel's bands.
C17_Witness ==
    /\ pc = "logic"
    /\ win_accel # win_gyro
    /\ fog # ChannelSum(win_gyro, FogBins)
    /\ tremor # ChannelSum(win_accel, TremorBins)
    /\ dysk # ChannelSum(win_accel, DyskBins)

RECURSIVE FloatSumTo(_, _)
\* buf[0] + ... + buf[n-1] added up in floats
FloatSumTo(buf, n) == IF n = 0 THEN 0 ELSE FAdd(FloatSumTo(buf, n - 1), buf[n - 1])

\* The index part of C20: every write to fft_input is at an index in
\* [0, FFT_SIZE), the transform has run once per FFT_SIZE samples acquired
\* and left fft_idx at 0, and ma_idx is in [0, MA_WINDOW).
C20_Indices ==
    /\ fft_wr \in -1..(FFT_SIZE - 1)
    /\ ma_idx \in 0..(MA_WINDOW - 1)
    /\ ma_idx = acquired % MA_WINDOW
    /\ pc = "demo_acquire" =>
         /\ fft_idx = acquired % FFT_SIZE
         /\ transforms = acquired \div FFT_SIZE

\* The sum part of C20: after each iteration ma_sum is the sum of the
\* MA_WINDOW entries of ma_buffer.
C20_SumMatches ==
    pc = "demo_acquire" => ma_sum = FloatSumTo(ma_buffer, MA_WINDOW)

\* C20: in the DSP demo the writes to fft_input stay in range, the transform
\* runs once per FFT_SIZE samples and resets fft_idx, ma_idx stays in
\* [0, MA_WINDOW), and after each iteration ma_sum equals the sum of the
\* entries of ma_buffer.
C20_DemoInvariants == C20_Indices /\ C20_SumMatches
====
